---------------------------- MODULE Spec2Model ----------------------------
(***************************************************************************)
(* State-machine model of src/meeting-recorder.js:                         *)
(*   - MeetingRecorder: acquisition of microphone / system audio, mixing,  *)
(*     the MediaRecorder driven chunk emission, start / stop / cleanup;    *)
(*   - MeetingAPI: createMeeting / submitAudio / endMeeting and the        *)
(*     meetingId they share.                                               *)
(* Each action is one run-to-completion step of the JavaScript event loop: *)
(* a call up to its first await, the resumption after an await, or one     *)
(* host callback.  The host (getUserMedia, desktopCapturer, MediaRecorder, *)
(* fetch) is the environment; its outcomes are chosen nondeterministically.*)
(***************************************************************************)
EXTENDS Integers, Sequences, FiniteSets

\* Number of start()/stop() calls issued on one MeetingRecorder.
MaxCalls == 3
\* Number of timer-driven encoder flushes (MediaRecorder timeslice events).
MaxFlush == 1
\* Number of start() calls suspended in an acquisition at the same time.
MaxInFlight == 2
\* Number of encoder error events delivered to the onerror handler.
MaxErrors == 1
\* Number of createMeeting()/submitAudio()/endMeeting() calls on one MeetingAPI.
MaxApiCalls == 3

Calls == 1..MaxCalls
TrackKinds == {"mic", "sys", "video"}
Null == 0

VARIABLES
  \* ---- MeetingRecorder fields (constructor, lines 9-24) ----
  mediaRecorder,   \* Null or the call whose start() constructed the recorder
  audioContext,    \* Null or the call whose mixAudioStreams created the context
  micStream,       \* Null or the call whose getUserMedia returned the stream
  systemStream,    \* Null or the call whose capture returned the stream
  mixedStream,     \* Null or the call whose mixAudioStreams returned the stream
  sequence,
  isRecording,
  \* ---- host objects ----
  track,           \* track[c][k]: "none" | "live" | "ended"
  ctx,             \* ctx[c]: "none" | "running" | "closed"   (AudioContext)
  rec,             \* rec[c]: the MediaRecorder constructed by call c
  \* ---- callers and callbacks ----
  calls,           \* calls[c]: one start()/stop() invocation and its position
  nCalls,          \* calls issued so far; call ids are issue order
  emitted,         \* onAudioChunk invocations: <<[rec, seq]>>
  flushes,         \* timer flushes so far
  errors,          \* onError invocations: <<[rec, active]>>, active when the
                   \* controller was recording with that recorder
  recordingSince,  \* Null, or the start() that completed successfully with no
                   \* stop() requested since
  \* ---- MeetingAPI ----
  meetingId,       \* Null or the id of the active meeting
  apiCalls,        \* apiCalls[a]: one createMeeting/submitAudio/endMeeting call
  nApiCalls,
  remote,          \* remote[id]: "none" | "created" | "ended"
  sent             \* number of requests handed to fetch

recorderVars == <<mediaRecorder, audioContext, micStream, systemStream,
                  mixedStream, sequence, isRecording, track, ctx, rec,
                  calls, nCalls, emitted, flushes, errors, recordingSince>>
apiVars == <<meetingId, apiCalls, nApiCalls, remote, sent>>
vars == <<recorderVars, apiVars>>


(***************************************************************************)
(* MeetingRecorder                                                         *)
(***************************************************************************)

\* The controller's fields and the host objects they refer to, as one value,
\* so that a handler's statements can be applied one after another.
World ==
  [mediaRecorder |-> mediaRecorder, audioContext |-> audioContext,
   micStream |-> micStream, systemStream |-> systemStream,
   mixedStream |-> mixedStream, sequence |-> sequence,
   isRecording |-> isRecording, track |-> track, ctx |-> ctx, rec |-> rec]

SetWorld(w) ==
  /\ mediaRecorder' = w.mediaRecorder
  /\ audioContext' = w.audioContext
  /\ micStream' = w.micStream
  /\ systemStream' = w.systemStream
  /\ mixedStream' = w.mixedStream
  /\ sequence' = w.sequence
  /\ isRecording' = w.isRecording
  /\ track' = w.track
  /\ ctx' = w.ctx
  /\ rec' = w.rec

NoCall ==
  [kind |-> "none", pc |-> "idle", includeMic |-> FALSE,
   includeSystem |-> FALSE, streams |-> {}, result |-> "none",
   session |-> Null]

NoRecorder == [state |-> "none", pend |-> "none", onstop |-> Null]

\* track.stop() on every track of the stream acquired by call c for source k.
StopTracks(t, c, k) == [t EXCEPT ![c][k] = "ended"]

\* cleanup without the last assignment: isRecording keeps its value.
cleanup_keepsRecordingFlag(w) ==
  LET w1 == IF w.micStream # Null
            THEN [w EXCEPT !.track = StopTracks(@, w.micStream, "mic"),
                           !.micStream = Null]
            ELSE w
      w2 == IF w1.systemStream # Null
            THEN [w1 EXCEPT !.track = StopTracks(@, w1.systemStream, "sys"),
                            !.systemStream = Null]
            ELSE w1
      w3 == IF w2.audioContext # Null
            THEN [w2 EXCEPT !.ctx[w2.audioContext] = "closed",
                            !.audioContext = Null]
            ELSE w2
  IN [w3 EXCEPT !.mixedStream = Null, !.mediaRecorder = Null]

\* cleanup that stops the microphone tracks and closes the graph but keeps
\* the references to them.
cleanup_keepsReferences(w) ==
  LET w1 == IF w.micStream # Null
            THEN [w EXCEPT !.track = StopTracks(@, w.micStream, "mic")]
            ELSE w
      w2 == IF w1.systemStream # Null
            THEN [w1 EXCEPT !.track = StopTracks(@, w1.systemStream, "sys"),
                            !.systemStream = Null]
            ELSE w1
      w3 == IF w2.audioContext # Null
            THEN [w2 EXCEPT !.ctx[w2.audioContext] = "closed"]
            ELSE w2
  IN [w3 EXCEPT !.mixedStream = Null, !.mediaRecorder = Null,
                !.isRecording = FALSE]

\* cleanup(), lines 226-245.
cleanup(w) ==
  LET w1 == IF w.micStream # Null
            THEN [w EXCEPT !.track = StopTracks(@, w.micStream, "mic"),
                           !.micStream = Null]
            ELSE w
      w2 == IF w1.systemStream # Null
            THEN [w1 EXCEPT !.track = StopTracks(@, w1.systemStream, "sys"),
                            !.systemStream = Null]
            ELSE w1
      w3 == IF w2.audioContext # Null
            THEN [w2 EXCEPT !.ctx[w2.audioContext] = "closed",
                            !.audioContext = Null]
            ELSE w2
  IN [w3 EXCEPT !.mixedStream = Null, !.mediaRecorder = Null,
                !.isRecording = FALSE]

\* mixAudioStreams with the pass-through case lost: a single valid stream
\* is refused like none.
mixAudioStreams_rejectsSingle(w, c, streams) ==
  IF Cardinality(streams) <= 1
  THEN [thrown |-> TRUE, stream |-> Null, w |-> w]
  ELSE [thrown |-> FALSE, stream |-> c,
        w |-> [w EXCEPT !.audioContext = c, !.ctx[c] = "running"]]

\* mixAudioStreams without the zero-stream check: an empty list is mixed
\* like two streams.
mixAudioStreams_acceptsEmpty(w, c, streams) ==
  IF Cardinality(streams) = 1
  THEN [thrown |-> FALSE, stream |-> c, w |-> w]
  ELSE [thrown |-> FALSE, stream |-> c,
        w |-> [w EXCEPT !.audioContext = c, !.ctx[c] = "running"]]

\* mixAudioStreams(streams), lines 103-126.  streams is the local array of
\* start(): the sources call c has pushed.  thrown: the zero-stream error.
mixAudioStreams(w, c, streams) ==
  IF Cardinality(streams) = 0
  THEN [thrown |-> TRUE, stream |-> Null, w |-> w]
  ELSE IF Cardinality(streams) = 1
  THEN [thrown |-> FALSE, stream |-> c, w |-> w]
  ELSE [thrown |-> FALSE, stream |-> c,
        w |-> [w EXCEPT !.audioContext = c, !.ctx[c] = "running"]]

\* start(), lines 156-200: from mixing to the return, and the catch block.
\* enc is the host's answer to the encoder: "ok", "ctorFail" (new MediaRecorder
\* throws) or "startFail" (mediaRecorder.start throws).
finishStart(w, c, streams, enc) ==
  LET m == mixAudioStreams(w, c, streams) IN
  IF m.thrown
  THEN [result |-> "noSource", w |-> cleanup(m.w)]
  ELSE
    LET w1 == [m.w EXCEPT !.mixedStream = m.stream] IN
    IF enc = "ctorFail"
    THEN [result |-> "encoderError", w |-> cleanup(w1)]
    ELSE
      LET w2 == [w1 EXCEPT !.mediaRecorder = c,
                           !.rec[c] = [state |-> "inactive", pend |-> "none",
                                       onstop |-> Null],
                           !.sequence = 0]
      IN IF enc = "startFail"
         THEN [result |-> "encoderError", w |-> cleanup(w2)]
         ELSE [result |-> "ok",
               w |-> [w2 EXCEPT !.rec[c].state = "recording",
                                !.isRecording = TRUE]]

EncOutcomes == {"ok", "ctorFail", "startFail"}

\* The end of a start() call: the fields, the caller's result and the
\* bookkeeping of which start() the controller is recording for.
CompleteStart(c, this, f) ==
  /\ SetWorld(f.w)
  /\ calls' = [calls EXCEPT ![c] = [this EXCEPT !.pc = "done",
                                                !.result = f.result]]
  /\ recordingSince' = IF f.result = "ok" THEN c ELSE recordingSince

\* The start() calls suspended at an await of an acquisition.
InFlight ==
  {c \in Calls : calls[c].pc \in {"awaitMic", "awaitSources", "awaitSysMedia"}}

\* start(options), lines 134-157, up to its first await.
start(includeMic, includeSystem, enc) ==
  /\ nCalls < MaxCalls
  /\ Cardinality(InFlight) < MaxInFlight
  /\ nCalls' = nCalls + 1
  /\ LET c == nCalls + 1
         this == [NoCall EXCEPT !.kind = "start", !.includeMic = includeMic,
                                !.includeSystem = includeSystem]
     IN IF isRecording
        THEN /\ calls' = [calls EXCEPT ![c] = [this EXCEPT !.pc = "done",
                                                          !.result = "already"]]
             /\ UNCHANGED <<mediaRecorder, audioContext, micStream,
                            systemStream, mixedStream, sequence, isRecording,
                            track, ctx, rec, recordingSince>>
        ELSE IF includeMic
        THEN /\ calls' = [calls EXCEPT ![c] = [this EXCEPT !.pc = "awaitMic"]]
             /\ UNCHANGED <<mediaRecorder, audioContext, micStream,
                            systemStream, mixedStream, sequence, isRecording,
                            track, ctx, rec, recordingSince>>
        ELSE IF includeSystem
        THEN /\ calls' = [calls EXCEPT ![c] = [this EXCEPT !.pc = "awaitSources"]]
             /\ UNCHANGED <<mediaRecorder, audioContext, micStream,
                            systemStream, mixedStream, sequence, isRecording,
                            track, ctx, rec, recordingSince>>
        ELSE CompleteStart(c, this, finishStart(World, c, {}, enc))
  /\ UNCHANGED <<emitted, flushes, errors, apiVars>>

\* getMicrophoneStream() settles, lines 29-46 and 144-146: granted is the
\* host's answer to getUserMedia.
getMicrophoneStream(c, granted, enc) ==
  /\ calls[c].pc = "awaitMic"
  /\ IF ~granted
     THEN /\ SetWorld(cleanup(World))
          /\ calls' = [calls EXCEPT ![c].pc = "done", ![c].result = "micError"]
          /\ UNCHANGED recordingSince
     ELSE LET w == [World EXCEPT !.track[c]["mic"] = "live", !.micStream = c]
              this == [calls[c] EXCEPT !.streams = @ \cup {"mic"}]
          IN IF this.includeSystem
             THEN /\ SetWorld(w)
                  /\ calls' = [calls EXCEPT ![c] = [this EXCEPT !.pc = "awaitSources"]]
                  /\ UNCHANGED recordingSince
             ELSE CompleteStart(c, this, finishStart(w, c, this.streams, enc))
  /\ UNCHANGED <<nCalls, emitted, flushes, errors, apiVars>>

\* getSystemAudioStream(), lines 51-62 and 93-97: desktopCapturer.getSources
\* settles.  found is FALSE when it rejects or returns no screen source: the
\* catch block returns null and start() goes on from line 150.
getSystemAudioStream_sources(c, found, enc) ==
  /\ calls[c].pc = "awaitSources"
  /\ IF found
     THEN /\ calls' = [calls EXCEPT ![c].pc = "awaitSysMedia"]
          /\ UNCHANGED <<mediaRecorder, audioContext, micStream, systemStream,
                         mixedStream, sequence, isRecording, track, ctx, rec,
                         recordingSince>>
     ELSE CompleteStart(c, calls[c],
            finishStart([World EXCEPT !.systemStream = Null], c,
                        calls[c].streams, enc))
  /\ UNCHANGED <<nCalls, emitted, flushes, errors, apiVars>>

SysOutcomes == {"denied", "noAudio", "audio"}

\* getSystemAudioStream(), lines 64-97, and start() lines 150-154: the
\* getUserMedia for the desktop source settles.  "denied": it rejects;
\* "noAudio": a stream with a video track and no audio track; "audio": a stream
\* with both.
getSystemAudioStream_media(c, got, enc) ==
  /\ calls[c].pc = "awaitSysMedia"
  /\ LET w == IF got = "denied"
              THEN [World EXCEPT !.systemStream = Null]
              ELSE IF got = "noAudio"
              THEN [World EXCEPT !.track[c]["video"] = "live",
                                 !.systemStream = Null]
              ELSE [World EXCEPT !.track[c]["video"] = "ended",
                                 !.track[c]["sys"] = "live",
                                 !.systemStream = c]
         this == IF got = "audio"
                 THEN [calls[c] EXCEPT !.streams = @ \cup {"sys"}]
                 ELSE calls[c]
     IN CompleteStart(c, this, finishStart(w, c, this.streams, enc))
  /\ UNCHANGED <<nCalls, emitted, flushes, errors, apiVars>>


\* stop() without the isRecording test of lines 207-209.
stop_noGuard(raises) ==
  /\ nCalls < MaxCalls
  /\ nCalls' = nCalls + 1
  /\ recordingSince' = Null
  /\ LET c == nCalls + 1
         this == [NoCall EXCEPT !.kind = "stop", !.session = mediaRecorder]
         r == mediaRecorder
     IN IF r = Null
        THEN /\ calls' = [calls EXCEPT ![c] = [this EXCEPT !.pc = "done",
                                                          !.result = "rejected"]]
             /\ UNCHANGED <<rec, isRecording>>
        ELSE IF rec[r].state = "recording"
        THEN /\ rec' = [rec EXCEPT ![r].onstop = c, ![r].state = "inactive",
                                   ![r].pend = "stop"]
             /\ isRecording' = FALSE
             /\ calls' = [calls EXCEPT ![c] = [this EXCEPT !.pc = "waiting"]]
        ELSE IF raises
        THEN /\ rec' = [rec EXCEPT ![r].onstop = c]
             /\ UNCHANGED isRecording
             /\ calls' = [calls EXCEPT ![c] = [this EXCEPT !.pc = "done",
                                                          !.result = "rejected"]]
        ELSE /\ rec' = [rec EXCEPT ![r].onstop = c]
             /\ isRecording' = FALSE
             /\ calls' = [calls EXCEPT ![c] = [this EXCEPT !.pc = "waiting"]]
  /\ UNCHANGED <<mediaRecorder, audioContext, micStream, systemStream,
                 mixedStream, sequence, track, ctx, emitted, flushes, errors, apiVars>>

\* stop(), lines 206-221.  raises is the host's answer when stop() is asked
\* of a recorder that is already inactive: InvalidStateError, or nothing.
stop(raises) ==
  /\ nCalls < MaxCalls
  /\ nCalls' = nCalls + 1
  /\ recordingSince' = Null
  /\ LET c == nCalls + 1
         this == [NoCall EXCEPT !.kind = "stop", !.session = mediaRecorder]
         r == mediaRecorder
     IN IF ~isRecording
        THEN /\ calls' = [calls EXCEPT ![c] = [this EXCEPT !.pc = "done",
                                                          !.result = "ok"]]
             /\ UNCHANGED <<rec, isRecording>>
        ELSE IF r = Null
        THEN \* this.mediaRecorder.onstop = ... on null: the executor throws
             /\ calls' = [calls EXCEPT ![c] = [this EXCEPT !.pc = "done",
                                                          !.result = "rejected"]]
             /\ UNCHANGED <<rec, isRecording>>
        ELSE IF rec[r].state = "recording"
        THEN /\ rec' = [rec EXCEPT ![r].onstop = c, ![r].state = "inactive",
                                   ![r].pend = "stop"]
             /\ isRecording' = FALSE
             /\ calls' = [calls EXCEPT ![c] = [this EXCEPT !.pc = "waiting"]]
        ELSE IF raises
        THEN /\ rec' = [rec EXCEPT ![r].onstop = c]
             /\ UNCHANGED isRecording
             /\ calls' = [calls EXCEPT ![c] = [this EXCEPT !.pc = "done",
                                                          !.result = "rejected"]]
        ELSE /\ rec' = [rec EXCEPT ![r].onstop = c]
             /\ isRecording' = FALSE
             /\ calls' = [calls EXCEPT ![c] = [this EXCEPT !.pc = "waiting"]]
  /\ UNCHANGED <<mediaRecorder, audioContext, micStream, systemStream,
                 mixedStream, sequence, track, ctx, emitted, flushes, errors, apiVars>>

\* mediaRecorder.ondataavailable, lines 169-180, for a flush of the recorder
\* constructed by call r carrying size bytes.
ondataavailable(w, em, r, size) ==
  IF size > 0
  THEN [w |-> [w EXCEPT !.sequence = @ + 1],
        emitted |-> Append(em, [rec |-> r, seq |-> w.sequence + 1])]
  ELSE [w |-> w, emitted |-> em]

FlushSizes == {0, 1}

\* The timeslice timer of a recording encoder fires (line 191: start(5000)).
timerFlush(r, size) ==
  /\ rec[r].state = "recording"
  /\ flushes < MaxFlush
  /\ flushes' = flushes + 1
  /\ LET d == ondataavailable(World, emitted, r, size)
     IN /\ SetWorld(d.w)
        /\ emitted' = d.emitted
  /\ UNCHANGED <<calls, nCalls, recordingSince, errors, apiVars>>

\* The host's stop task of recorder r: the final dataavailable (lines 169-180)
\* and then the stop event, whose handler is the one stop() installed
\* (lines 212-216), if any.
onstop(r, size) ==
  /\ rec[r].pend = "stop"
  /\ LET d == ondataavailable(World, emitted, r, size)
         s == rec[r].onstop
         w1 == [d.w EXCEPT !.rec[r].pend = "none"]
     IN /\ emitted' = d.emitted
        /\ IF s = Null
           THEN /\ SetWorld(w1)
                /\ UNCHANGED calls
           ELSE /\ SetWorld(cleanup(w1))
                /\ calls' = [calls EXCEPT ![s].pc = "done", ![s].result = "ok"]
  /\ UNCHANGED <<nCalls, flushes, recordingSince, errors, apiVars>>

\* The host ends a recording on its own (every source track ended, or a fatal
\* encoder error): the recorder turns inactive and its stop task is queued.
\* The controller installs no handler for it (no onstop before stop()).
encoderEnds(r) ==
  /\ rec[r].state = "recording"
  /\ rec' = [rec EXCEPT ![r].state = "inactive", ![r].pend = "stop"]
  /\ UNCHANGED <<mediaRecorder, audioContext, micStream, systemStream,
                 mixedStream, sequence, isRecording, track, ctx, calls, nCalls,
                 emitted, flushes, recordingSince, errors, apiVars>>

\* mediaRecorder.onerror, lines 183-188: the host reports an error of the
\* recorder constructed by call r; the handler logs it and calls onError.
onerror(r) ==
  /\ rec[r].state = "recording"
  /\ Len(errors) < MaxErrors
  /\ errors' = Append(errors, [rec |-> r,
                                active |-> isRecording /\ mediaRecorder = r])
  /\ UNCHANGED <<mediaRecorder, audioContext, micStream, systemStream,
                 mixedStream, sequence, isRecording, track, ctx, rec, calls,
                 nCalls, emitted, flushes, recordingSince, apiVars>>

RecorderInit ==
  /\ mediaRecorder = Null
  /\ audioContext = Null
  /\ micStream = Null
  /\ systemStream = Null
  /\ mixedStream = Null
  /\ sequence = 0
  /\ isRecording = FALSE
  /\ track = [c \in Calls |-> [k \in TrackKinds |-> "none"]]
  /\ ctx = [c \in Calls |-> "none"]
  /\ rec = [c \in Calls |-> NoRecorder]
  /\ calls = [c \in Calls |-> NoCall]
  /\ nCalls = 0
  /\ emitted = <<>>
  /\ flushes = 0
  /\ errors = <<>>
  /\ recordingSince = Null

(***************************************************************************)
(* MeetingAPI                                                              *)
(***************************************************************************)

ApiCalls == 1..MaxApiCalls
\* The ids the remote service hands out: one fresh id per successful create.
MeetingIds == 1..MaxApiCalls

NoApiCall == [op |-> "none", pc |-> "idle", id |-> Null, result |-> "none"]

ApiInit ==
  /\ meetingId = Null
  /\ apiCalls = [a \in ApiCalls |-> NoApiCall]
  /\ nApiCalls = 0
  /\ remote = [i \in MeetingIds |-> "none"]
  /\ sent = 0

Init == RecorderInit /\ ApiInit

Next ==
  \/ \E im \in BOOLEAN, is \in BOOLEAN, enc \in EncOutcomes : start(im, is, enc)
  \/ \E c \in Calls, granted \in BOOLEAN, enc \in EncOutcomes :
       getMicrophoneStream(c, granted, enc)
  \/ \E c \in Calls, found \in BOOLEAN, enc \in EncOutcomes :
       getSystemAudioStream_sources(c, found, enc)
  \/ \E c \in Calls, got \in SysOutcomes, enc \in EncOutcomes :
       getSystemAudioStream_media(c, got, enc)
  \/ \E raises \in BOOLEAN : stop(raises)
  \/ \E r \in Calls, size \in FlushSizes : timerFlush(r, size)
  \/ \E r \in Calls, size \in FlushSizes : onstop(r, size)
  \/ \E r \in Calls : encoderEnds(r)
  \/ \E r \in Calls : onerror(r)

Spec == Init /\ [][Next]_vars


\* createMeeting(), lines 298-307: up to the await of fetch.
createMeeting ==
  /\ nApiCalls < MaxApiCalls
  /\ nApiCalls' = nApiCalls + 1
  /\ sent' = sent + 1
  /\ apiCalls' = [apiCalls EXCEPT ![nApiCalls + 1] =
                    [NoApiCall EXCEPT !.op = "create", !.pc = "awaitFetch"]]
  /\ UNCHANGED <<meetingId, remote, recorderVars>>

\* submitAudio without the meetingId guard: the request is always sent.
submitAudio_noGuard ==
  /\ nApiCalls < MaxApiCalls
  /\ nApiCalls' = nApiCalls + 1
  /\ apiCalls' = [apiCalls EXCEPT ![nApiCalls + 1] =
                    [NoApiCall EXCEPT !.op = "submit", !.pc = "awaitFetch",
                                      !.id = meetingId]]
  /\ sent' = sent + 1
  /\ UNCHANGED <<meetingId, remote, recorderVars>>

\* submitAudio(), lines 329-344: the guard, and up to the await of fetch.
\* The request's URL carries the meetingId read at that moment.
submitAudio ==
  /\ nApiCalls < MaxApiCalls
  /\ nApiCalls' = nApiCalls + 1
  /\ IF meetingId = Null
     THEN /\ apiCalls' = [apiCalls EXCEPT ![nApiCalls + 1] =
                            [NoApiCall EXCEPT !.op = "submit", !.pc = "done",
                                              !.result = "noSession"]]
          /\ UNCHANGED sent
     ELSE /\ apiCalls' = [apiCalls EXCEPT ![nApiCalls + 1] =
                            [NoApiCall EXCEPT !.op = "submit",
                                              !.pc = "awaitFetch",
                                              !.id = meetingId]]
          /\ sent' = sent + 1
  /\ UNCHANGED <<meetingId, remote, recorderVars>>

\* endMeeting(), lines 361-373: the guard, and up to the await of fetch.
endMeeting ==
  /\ nApiCalls < MaxApiCalls
  /\ nApiCalls' = nApiCalls + 1
  /\ IF meetingId = Null
     THEN /\ apiCalls' = [apiCalls EXCEPT ![nApiCalls + 1] =
                            [NoApiCall EXCEPT !.op = "end", !.pc = "done",
                                              !.result = "noSession"]]
          /\ UNCHANGED sent
     ELSE /\ apiCalls' = [apiCalls EXCEPT ![nApiCalls + 1] =
                            [NoApiCall EXCEPT !.op = "end",
                                              !.pc = "awaitFetch",
                                              !.id = meetingId]]
          /\ sent' = sent + 1
  /\ UNCHANGED <<meetingId, remote, recorderVars>>

FetchOutcomes == {"netFail", "notOk", "ok"}

\* The remote service's handling of a request it answers with 2xx.
\* canServe: whether it can answer call a with 2xx at all.
canServe(a) ==
  IF apiCalls[a].op = "create"
  THEN \E i \in MeetingIds : remote[i] = "none"
  ELSE apiCalls[a].id # Null /\ remote[apiCalls[a].id] = "created"

\* fetchSettles with the id dropped as soon as an end request fails.
fetchSettles_clearsOnFailure(a, outcome) ==
  /\ apiCalls[a].pc = "awaitFetch"
  /\ IF outcome = "ok" /\ canServe(a)
     THEN LET fresh == CHOOSE i \in MeetingIds :
                         remote[i] = "none" /\ \A j \in MeetingIds :
                                                 remote[j] = "none" => i <= j
          IN /\ UNCHANGED meetingId
             /\ IF apiCalls[a].op = "create"
                THEN /\ remote' = [remote EXCEPT ![fresh] = "created"]
                     /\ apiCalls' = [apiCalls EXCEPT ![a].pc = "awaitJson",
                                                     ![a].id = fresh]
                ELSE IF apiCalls[a].op = "end"
                THEN /\ remote' = [remote EXCEPT ![apiCalls[a].id] = "ended"]
                     /\ apiCalls' = [apiCalls EXCEPT ![a].pc = "awaitJson"]
                ELSE /\ UNCHANGED remote
                     /\ apiCalls' = [apiCalls EXCEPT ![a].pc = "awaitJson"]
     ELSE /\ apiCalls' = [apiCalls EXCEPT ![a].pc = "done",
                                          ![a].result = "failed"]
          /\ meetingId' = IF apiCalls[a].op = "end" THEN Null ELSE meetingId
          /\ UNCHANGED remote
  /\ UNCHANGED <<nApiCalls, sent, recorderVars>>

\* The await of fetch settles (lines 300-311, 340-348, 367-377): the request
\* is rejected (network), answered non-2xx, or answered 2xx.
fetchSettles(a, outcome) ==
  /\ apiCalls[a].pc = "awaitFetch"
  /\ IF outcome = "ok" /\ canServe(a)
     THEN LET fresh == CHOOSE i \in MeetingIds :
                         remote[i] = "none" /\ \A j \in MeetingIds :
                                                 remote[j] = "none" => i <= j
          IN IF apiCalls[a].op = "create"
             THEN /\ remote' = [remote EXCEPT ![fresh] = "created"]
                  /\ apiCalls' = [apiCalls EXCEPT ![a].pc = "awaitJson",
                                                  ![a].id = fresh]
             ELSE IF apiCalls[a].op = "end"
             THEN /\ remote' = [remote EXCEPT ![apiCalls[a].id] = "ended"]
                  /\ apiCalls' = [apiCalls EXCEPT ![a].pc = "awaitJson"]
             ELSE /\ UNCHANGED remote
                  /\ apiCalls' = [apiCalls EXCEPT ![a].pc = "awaitJson"]
     ELSE /\ apiCalls' = [apiCalls EXCEPT ![a].pc = "done",
                                          ![a].result = "failed"]
          /\ UNCHANGED remote
  /\ UNCHANGED <<meetingId, nApiCalls, sent, recorderVars>>

\* The await of response.json() settles (lines 313-315, 350, 379-381);
\* parsed is FALSE when the body is not JSON and the await throws.
jsonSettles(a, parsed) ==
  /\ apiCalls[a].pc = "awaitJson"
  /\ IF ~parsed
     THEN /\ apiCalls' = [apiCalls EXCEPT ![a].pc = "done",
                                          ![a].result = "failed"]
          /\ UNCHANGED meetingId
     ELSE /\ apiCalls' = [apiCalls EXCEPT ![a].pc = "done", ![a].result = "ok"]
          /\ meetingId' = IF apiCalls[a].op = "create" THEN apiCalls[a].id
                          ELSE IF apiCalls[a].op = "end" THEN Null
                          ELSE meetingId
  /\ UNCHANGED <<nApiCalls, remote, sent, recorderVars>>

ApiNext ==
  \/ createMeeting
  \/ submitAudio
  \/ endMeeting
  \/ \E a \in ApiCalls, outcome \in FetchOutcomes : fetchSettles(a, outcome)
  \/ \E a \in ApiCalls, parsed \in BOOLEAN : jsonSettles(a, parsed)

\* One MeetingAPI client and its callers.
ApiSpec == Init /\ [][ApiNext]_vars


(***************************************************************************)
(* Properties of MeetingRecorder                                           *)
(***************************************************************************)

\* Call c is a start() that reaches its caller (returns or throws) in this step.
StartCompletes(c) ==
  /\ calls[c].pc # "done"
  /\ calls'[c].pc = "done"
  /\ calls'[c].kind = "start"

\* A start() / stop() call is issued in this step.
Issued(kind) ==
  /\ nCalls' = nCalls + 1
  /\ calls'[nCalls'].kind = kind

Refs == <<mediaRecorder, audioContext, micStream, systemStream, mixedStream>>

LiveEncoders == {r \in Calls : rec[r].state = "recording"}

\* Every track stopped, every audio graph closed, every reference null.
AllReleased ==
  /\ \A c \in Calls, k \in TrackKinds : track[c][k] # "live"
  /\ \A c \in Calls : ctx[c] # "running"
  /\ Refs = <<Null, Null, Null, Null, Null>>

\* C1: a start() issued while the controller is recording (a start() has
\* completed successfully and no stop() was requested since) fails with the
\* already-recording error and changes no field, stops no track, closes no
\* graph and touches no recorder.
C1_StartWhileRecordingHasNoEffect ==
  [][(recordingSince # Null /\ Issued("start"))
       => /\ calls'[nCalls'].result = "already"
          /\ UNCHANGED <<mediaRecorder, audioContext, micStream, systemStream,
                         mixedStream, sequence, isRecording, track, ctx, rec>>]_vars

\* C2: lifecycle transitions are serialized: at most one encoder created by
\* the controller is live at any time, and a reference set by one start() is
\* never replaced by the reference of another.
C2_TransitionsSerialized ==
  [][/\ Cardinality(LiveEncoders') <= 1
     /\ \A i \in 1..Len(Refs) :
          (Refs[i] # Null /\ Refs'[i] # Null) => Refs'[i] = Refs[i]]_vars

\* C3: no transition from Stopping back to Recording: while a stop() waits
\* for the encoder's stop notification no start() issued after it completes
\* successfully (isRecording true), and
\* the cleanup run by that notification stops no track and clears no recorder
\* of a start() issued after the stop().
C3_NoStoppingToRecording ==
  [][/\ \A s \in Calls, c \in Calls :
          (calls[s].kind = "stop" /\ calls[s].pc = "waiting" /\ c > s
             /\ StartCompletes(c)) => calls'[c].result # "ok"
     /\ \A r \in Calls :
          (rec[r].pend = "stop" /\ rec'[r].pend = "none" /\ rec[r].onstop # Null)
            => /\ \A c \in Calls, k \in TrackKinds :
                    (c > rec[r].onstop /\ track[c][k] = "live")
                      => track'[c][k] = "live"
               /\ mediaRecorder > rec[r].onstop
                    => mediaRecorder' = mediaRecorder]_vars

\* C4: stop() always succeeds: no stop() call is rejected, and a stop() that
\* has not resolved yet is still going to be resolved (the notification that
\* resolves it is pending).
C4_StopAlwaysSucceeds ==
  \A s \in Calls :
    calls[s].kind = "stop"
      => /\ calls[s].result # "rejected"
         /\ calls[s].pc = "waiting"
              => \E r \in Calls : rec[r].onstop = s /\ rec[r].pend = "stop"

\* C5: whenever a stop() call resolves, every acquired track is stopped, the
\* audio graph is closed and all stream / recorder references are null.
C5_ReleasedWhenStopResolves ==
  [][\A s \in Calls :
       (calls[s].result # "ok" /\ calls'[s].kind = "stop"
          /\ calls'[s].result = "ok") => AllReleased']_vars

\* The positions in emitted of the chunks of the encoder of session r.
ChunksOf(r) == {i \in DOMAIN emitted : emitted[i].rec = r}

\* C6: the sequence numbers handed to onAudioChunk for one session (one
\* encoder) are 1, 2, 3, ... in emission order, the final flush included.
C6_SequenceNumbersContiguous ==
  \A r \in Calls : \A i \in ChunksOf(r) :
    emitted[i].seq = Cardinality({j \in ChunksOf(r) : j <= i})

\* Call c is a start() that passed the isRecording guard and reaches its
\* caller in this step.
StartAttemptCompletes(c) ==
  /\ StartCompletes(c)
  /\ calls'[c].result # "already"

\* C7 as stated: a start() that acquired at least one requested source
\* succeeds and leaves isRecording true.
C7_StartSucceedsWithOneSource ==
  [][\A c \in Calls :
       (StartAttemptCompletes(c) /\ calls'[c].streams # {})
         => (calls'[c].result = "ok" /\ isRecording')]_vars

\* C7 (amended): a start() that acquired at least one requested source
\* succeeds and leaves isRecording true unless constructing or starting the
\* encoder throws; it then fails with the encoder's error and never with the
\* no-source or the microphone error.
C7_StartSucceedsUnlessEncoderFails ==
  [][\A c \in Calls :
       (StartAttemptCompletes(c) /\ calls'[c].streams # {})
         => /\ calls'[c].result \in {"ok", "encoderError"}
            /\ calls'[c].result = "ok" => (isRecording' /\ mediaRecorder' = c)]_vars

\* C7 witness: starts have succeeded from a single source (pass-through) and
\* from both sources (mixed), and the controller is recording.
C7_Witness ==
  /\ isRecording
  /\ \E c \in Calls : calls[c].result = "ok" /\ calls[c].streams = {"mic", "sys"}
  /\ \E c \in Calls : calls[c].result = "ok" /\ calls[c].streams = {"sys"}

\* C8 as stated: a start() with no source requested, or whose every requested
\* acquisition failed, fails with the no-source error, isRecording is false
\* and it created no encoder.
C8_NoSourceError ==
  [][\A c \in Calls :
       (StartAttemptCompletes(c) /\ calls'[c].streams = {}
          /\ ~(calls'[c].includeMic /\ calls'[c].includeSystem))
         => /\ calls'[c].result = "noSource"
            /\ ~isRecording'
            /\ rec'[c].state = "none"]_vars

\* C8 (amended): a start() that acquired no source fails, isRecording is false
\* and it created no encoder; the error is the no-source error when the
\* microphone was not requested and the microphone acquisition error when it
\* was requested and failed.
C8_NoSourceOrMicError ==
  [][\A c \in Calls :
       (StartAttemptCompletes(c) /\ calls'[c].streams = {})
         => /\ calls'[c].result =
                 IF calls'[c].includeMic THEN "micError" ELSE "noSource"
            /\ ~isRecording'
            /\ rec'[c].state = "none"]_vars

\* C8 witness: one start() failed with the no-source error after its system
\* audio acquisition failed, another with the microphone error, and the
\* controller is idle.
C8_Witness ==
  /\ ~isRecording
  /\ \E c \in Calls : /\ calls[c].result = "noSource"
                      /\ calls[c].includeSystem
  /\ \E c \in Calls : calls[c].result = "micError"

\* C9: when a start() fails at any step after the guard, every track it
\* acquired is stopped, the audio graph it created is closed, all references
\* are null and isRecording is false.
C9_FailedStartReleasesEverything ==
  [][\A c \in Calls :
       (StartAttemptCompletes(c) /\ calls'[c].result # "ok")
         => /\ \A k \in TrackKinds : track'[c][k] # "live"
            /\ ctx'[c] # "running"
            /\ Refs' = <<Null, Null, Null, Null, Null>>
            /\ ~isRecording']_vars

\* C15: system-audio acquisition never leaves a video track live: whatever
\* getSystemAudioStream() returned, the video tracks it obtained are stopped.
C15_NoLiveVideoTrack ==
  \A c \in Calls : track[c]["video"] # "live"

\* C17: whenever isRecording is true, or a mixed stream or a recorder is
\* referenced, at least one of micStream and systemStream is set and its
\* track is live.
C17_MixedStreamHasLiveSource ==
  (isRecording \/ mixedStream # Null \/ mediaRecorder # Null)
    => \/ micStream # Null /\ track[micStream]["mic"] = "live"
       \/ systemStream # Null /\ track[systemStream]["sys"] = "live"

\* C20: isRecording = true implies that mediaRecorder is set, so stop() past
\* its guard never dereferences null.
C20_RecordingImpliesRecorder ==
  isRecording => mediaRecorder # Null

\* C20 witness: the controller is recording after an overlapping start() has
\* failed and run cleanup, and after an earlier session was stopped.
C20_Witness ==
  /\ isRecording /\ mediaRecorder # Null
  /\ \E c \in Calls : calls[c].kind = "start" /\ calls[c].result = "encoderError"
  /\ \E c \in Calls : calls[c].kind = "start" /\ c < mediaRecorder
                      /\ calls[c].result = "ok"

\* What one run of cleanup() calls on the host: the streams whose tracks it
\* stops and the audio graph it closes, read off the fields it clears.
Released(w) ==
  [mic |-> w.micStream # Null /\ cleanup(w).micStream = Null,
   sys |-> w.systemStream # Null /\ cleanup(w).systemStream = Null,
   graph |-> w.audioContext # Null /\ cleanup(w).audioContext = Null]

NothingReleased == [mic |-> FALSE, sys |-> FALSE, graph |-> FALSE]

\* C12: cleanup() is idempotent: in every reachable state a second run
\* yields the state of the first, stops no track and closes no graph (every
\* reference it tests is null after the first run), and a run when nothing
\* is referenced changes nothing.
C12_CleanupIdempotent ==
  LET w1 == cleanup(World) IN
    /\ cleanup(w1) = w1
    /\ w1.micStream = Null /\ w1.systemStream = Null /\ w1.audioContext = Null
    /\ (micStream # Null => w1.track[micStream]["mic"] = "ended")
    /\ (systemStream # Null => w1.track[systemStream]["sys"] = "ended")
    /\ (audioContext # Null => w1.ctx[audioContext] = "closed")
    /\ Released(w1) = NothingReleased
    /\ (Refs = <<Null, Null, Null, Null, Null>> /\ ~isRecording)
         => cleanup(World) = World

\* C12 witness: cleanup() has run on a mixed session (both tracks ended, the
\* graph closed, everything cleared) and a run of it now releases nothing.
C12_Witness ==
  /\ \E c \in Calls : /\ track[c]["mic"] = "ended" /\ track[c]["sys"] = "ended"
                      /\ ctx[c] = "closed"
  /\ Refs = <<Null, Null, Null, Null, Null>>
  /\ Released(World) = NothingReleased

\* C16: emission precedes stop completion.  No chunk of the encoder of
\* session r is handed to onAudioChunk once a stop() issued for r (one that
\* read mediaRecorder = r) has resolved, and a track the encoder of r records
\* is stopped only when r's final flush has been delivered.
C16_EmissionPrecedesStopCompletion ==
  [][\A r \in Calls :
       /\ (ChunksOf(r)' # ChunksOf(r))
            => ~ \E s \in Calls : /\ calls[s].kind = "stop"
                                  /\ calls[s].session = r
                                  /\ calls[s].result = "ok"
       /\ (/\ rec[r].state # "none"
           /\ \E k \in {"mic", "sys"} : /\ track[r][k] = "live"
                                        /\ track'[r][k] = "ended")
            => /\ rec'[r].state = "inactive"
               /\ rec'[r].pend = "none"]_vars

\* C14: an encoder error during active recording (isRecording is true and
\* the encoder is the controller's mediaRecorder) is delivered to onError and
\* changes nothing else (isRecording, sequence, the tracks, the encoder and
\* every reference are as before), and a chunk of that encoder flushed after
\* the error carries the next value of the counter, a number none of its
\* earlier chunks carries.
C14_EncoderErrorChangesNothing ==
  [][/\ (errors' # errors)
          => UNCHANGED <<mediaRecorder, audioContext, micStream, systemStream,
                         mixedStream, sequence, isRecording, track, ctx, rec,
                         emitted>>
     /\ \A r \in Calls :
          (/\ \E i \in DOMAIN errors : errors[i].rec = r /\ errors[i].active
           /\ ChunksOf(r)' # ChunksOf(r))
            => /\ emitted'[Len(emitted')].seq = sequence + 1
               /\ \A i \in ChunksOf(r) :
                    emitted[i].seq # emitted'[Len(emitted')].seq]_vars

\* Idle: not recording, no start() suspended in an acquisition and no stop()
\* waiting for the encoder's stop notification.
Idle ==
  /\ ~isRecording
  /\ InFlight = {}
  /\ \A s \in Calls : calls[s].pc # "waiting"

\* C13: a stop() called on an idle controller resolves with success at once
\* and changes no field, stops no track and closes no graph.
C13_StopWhenIdleHasNoEffect ==
  [][(Idle /\ Issued("stop"))
       => /\ calls'[nCalls'].result = "ok"
          /\ calls'[nCalls'].pc = "done"
          /\ UNCHANGED <<mediaRecorder, audioContext, micStream, systemStream,
                         mixedStream, sequence, isRecording, track, ctx, rec,
                         emitted>>]_vars

\* C13 witness: a session was started and stopped, and a further stop(),
\* issued after the cleanup of that session (it read mediaRecorder = null),
\* has resolved.
C13_Witness ==
  /\ nCalls = 3
  /\ calls[1].kind = "start" /\ calls[1].result = "ok"
  /\ calls[2].kind = "stop" /\ calls[2].result = "ok"
  /\ calls[2].session = 1
  /\ calls[3].kind = "stop" /\ calls[3].result = "ok"
  /\ calls[3].session = Null

(***************************************************************************)
(* Properties of MeetingAPI                                                *)
(***************************************************************************)

\* C10: submitAudio() called while no meeting id is set fails with the
\* no-session error, hands no request to fetch and leaves the id unchanged.
C10_SubmitWithoutSession ==
  [][(nApiCalls' = nApiCalls + 1 /\ apiCalls'[nApiCalls'].op = "submit"
        /\ meetingId = Null)
       => /\ apiCalls'[nApiCalls'].result = "noSession"
          /\ apiCalls'[nApiCalls'].pc = "done"
          /\ sent' = sent
          /\ remote' = remote
          /\ meetingId' = meetingId]_vars

\* C10 witness: a submitAudio() was refused after a createMeeting() and an
\* endMeeting() had both succeeded.
C10_Witness ==
  \E a \in ApiCalls, b \in ApiCalls, c \in ApiCalls :
    /\ a < b /\ b < c
    /\ apiCalls[a].op = "create" /\ apiCalls[a].result = "ok"
    /\ apiCalls[b].op = "end" /\ apiCalls[b].result = "ok"
    /\ apiCalls[c].op = "submit" /\ apiCalls[c].result = "noSession"
    /\ meetingId = Null

\* An API call reaches its caller in this step.
ApiCompletes(a) == apiCalls[a].pc # "done" /\ apiCalls'[a].pc = "done"

\* C11: the meeting id is cleared by a successful endMeeting() only: a call
\* that fails (create, submit or end) leaves the id as it was, a submitAudio()
\* never changes it, and the only steps that change it are a successful
\* createMeeting() (sets the new id) and a successful endMeeting() (clears it).
C11_IdClearedOnEndSuccessOnly ==
  [][/\ \A a \in ApiCalls :
          (ApiCompletes(a) /\ (apiCalls'[a].result # "ok"
                                 \/ apiCalls'[a].op = "submit"))
            => meetingId' = meetingId
     /\ meetingId' # meetingId
          => \E a \in ApiCalls :
               /\ ApiCompletes(a) /\ apiCalls'[a].result = "ok"
               /\ \/ apiCalls'[a].op = "end" /\ meetingId' = Null
                  \/ apiCalls'[a].op = "create" /\ meetingId' = apiCalls'[a].id]_vars

\* C11 witness: an endMeeting() has failed, a submitAudio() request has been
\* answered and the id of the meeting is still set.
C11_Witness ==
  \E a \in ApiCalls, b \in ApiCalls :
    /\ apiCalls[a].op = "end" /\ apiCalls[a].result = "failed"
    /\ apiCalls[b].op = "submit" /\ apiCalls[b].result \in {"ok", "failed"}
    /\ meetingId # Null /\ meetingId = apiCalls[a].id

\* The meetings this client created at the remote service and has not ended.
OpenMeetings == {i \in MeetingIds : remote[i] = "created"}

\* C18: at most one meeting of this client is created and not ended at the
\* remote service, and a meeting id that is set is never replaced by another
\* id (createMeeting() replaces it only once it was cleared by a successful
\* endMeeting()).
C18_AtMostOneOpenMeeting ==
  [][/\ Cardinality(OpenMeetings') <= 1
     /\ (meetingId # Null /\ meetingId' # Null) => meetingId' = meetingId]_vars

\* C19: a successful endMeeting() clears only the meeting it ended: when the
\* id that is set is no longer the id its request carried, it stays set.
C19_EndClearsOnlyItsMeeting ==
  [][\A a \in ApiCalls :
       (ApiCompletes(a) /\ apiCalls'[a].op = "end" /\ apiCalls'[a].result = "ok"
          /\ meetingId # Null /\ meetingId # apiCalls[a].id)
         => meetingId' = meetingId]_vars

=============================================================================
